---- MODULE Spec2Model ----
(***************************************************************************)
(* A model of jenkins-report.py: the backward walk over a job's builds     *)
(* (display_builds_for_job), the inclusion policy (is_build_included), the *)
(* console classifier (search_for_cause) and the lazily loaded, cached     *)
(* cause catalog (get_causes).                                             *)
(*                                                                         *)
(* Strings are sequences of one-character strings.  A datetime is a pair of *)
(* whole seconds and microseconds; the Jenkins server reports milliseconds.*)
(***************************************************************************)
EXTENDS Integers, Sequences, FiniteSets, TLC

VARIABLES
    jenkins_builds,   \* the server: build number -> build record (exists or not)
    causes_file,      \* causes.yaml: [readable, data], data a sequence of causes
    hours_ago,        \* argument of display_builds_for_job
    include_success,  \* argument of display_builds_for_job
    pc,               \* position in display_builds_for_job
    min_start_time,   \* local of display_builds_for_job
    build_number,     \* local of display_builds_for_job
    job_time,         \* local of display_builds_for_job
    build_info,       \* local: the last build_info fetched, or None
    include_build,    \* the last value returned by is_build_included
    build_statuses,   \* local dict, as the sequence of its items in insertion order
    causes_cache,     \* the lru_cache of get_causes: None or [data |-> catalog]
    calls,            \* the remote calls and file loads made so far, in order
    error,            \* the exception that ended the run, or "None"
    table,            \* None or [rows |-> the rows display_build_summary drew]
    output,           \* local of search_for_cause: the console text last fetched
    failure_reasons   \* classifier run: None or [list |-> what search_for_cause returned]
                      \* (a report run keeps the lists in build_statuses)

vars == <<jenkins_builds, causes_file, hours_ago, include_success, pc,
          min_start_time, build_number, job_time, build_info, include_build,
          build_statuses, causes_cache, calls, error, table, output,
          failure_reasons>>

(***************************************************************************)
(* Bounds of the model.                                                    *)
(***************************************************************************)
MaxBuild == 3     \* build numbers of a job are 1..MaxBuild
MaxTime == 2      \* builds start at hours 0..MaxTime; the run starts at hour MaxTime
MaxSigs == 2      \* causes in a catalog given to the classifier run
MaxLogLen == 2    \* characters in a console text given to the classifier run

\* Python's None, as a record so that it compares with dicts and lists
None == [none |-> TRUE]

Range(s) == {s[i] : i \in 1..Len(s)}

SeqsUpTo(S, n) == UNION {[1..k -> S] : k \in 0..n}

(***************************************************************************)
(* Time.  A datetime holds whole seconds since the epoch and microseconds.  *)
(* datetime.datetime.now() is the hour MaxTime; the server's timestamps    *)
(* are milliseconds since the epoch.                                       *)
(***************************************************************************)
datetime(seconds, microsecond) ==
    [seconds |-> seconds, microsecond |-> microsecond]

\* a < b on datetimes
dt_lt(a, b) ==
    \/ a.seconds < b.seconds
    \/ a.seconds = b.seconds /\ a.microsecond < b.microsecond

\* a > b on datetimes
dt_gt(a, b) == dt_lt(b, a)

now == datetime(MaxTime * 3600, 0)

\* the server's timestamp of a build started ms milliseconds into an hour
JenkinsTimestamp(hour, ms) == hour * 3600 * 1000 + ms

\* datetime.datetime.fromtimestamp(build_info['timestamp']/1000): a true
\* division, the milliseconds kept as microseconds
fromtimestamp(ms) == datetime(ms \div 1000, (ms % 1000) * 1000)

\* datetime.timedelta(hours=hours_ago), in seconds
timedelta(hours) == hours * 3600

\* d - delta
dt_minus(d, delta) == datetime(d.seconds - delta, d.microsecond)

(***************************************************************************)
(* Regular expressions and substrings.  A pattern is a sequence of tokens, *)
(* a token being a character or the wildcard "."; under re.DOTALL the      *)
(* wildcard matches every character, the newline included.                 *)
(***************************************************************************)
Chars == {"a", "A", "\n"}

TokenMatches(tok, ch) == tok = "." \/ tok = ch

MatchesAt(pat, s, i) ==
    /\ i + Len(pat) - 1 <= Len(s)
    /\ \A k \in 1..Len(pat) : TokenMatches(pat[k], s[i + k - 1])

\* re.search(reg_exp, output, re.DOTALL)
re_search(reg_exp, s) == \E i \in 1..(Len(s) + 1) : MatchesAt(reg_exp, s, i)

\* search_str in output
str_in(search_str, s) ==
    \E i \in 1..(Len(s) + 1) :
        /\ i + Len(search_str) - 1 <= Len(s)
        /\ \A k \in 1..Len(search_str) : search_str[k] = s[i + k - 1]

(***************************************************************************)
(* search_for_cause.  A catalog is the sequence of the items of the causes *)
(* dict; a cause is [name, re, text, bug_url], where an absent or empty    *)
(* 're'/'text' list (both falsy in the code) is <<>>.                      *)
(***************************************************************************)
\* the names one cause appends: one per matching reg_exp, then one per
\* matching search_str
CauseHits(cause_data, out) ==
    LET re_hits == SelectSeq(cause_data.re, LAMBDA r : re_search(r, out))
        text_hits == SelectSeq(cause_data.text, LAMBDA t : str_in(t, out))
    IN  [i \in 1..(Len(re_hits) + Len(text_hits)) |-> cause_data.name]

RECURSIVE AppendedReasons(_, _)
AppendedReasons(causes, out) ==
    IF causes = <<>> THEN <<>>
    ELSE CauseHits(Head(causes), out) \o AppendedReasons(Tail(causes), out)

\* list(set(reasons)) without the set: the list as appended
ListOfSet_NoDedup(reasons) == {reasons}

\* list(set(reasons)): the distinct names, in an order the hash seed decides
ListOfSet(reasons) ==
    LET S == Range(reasons)
    IN  {f \in [1..Cardinality(S) -> S] : Range(f) = S}

\* lines 48 and 51-60: the lists returned for a console text and a catalog
ReturnedLists(out, causes) == ListOfSet(AppendedReasons(causes, out))

(***************************************************************************)
(* The Jenkins server.  A build that exists has a start hour, a result and *)
(* a console text that can or cannot be fetched; in a report run the       *)
(* console text is decided by the result.                                  *)
(***************************************************************************)
Results == {"SUCCESS", "FAILURE", "ABORTED"}

ConsoleText(result) ==
    CASE result = "FAILURE" -> <<"a", "\n", "A">>
      [] result = "ABORTED" -> <<"\n">>
      [] OTHER -> <<>>

NoSuchBuild == [exists |-> FALSE, timestamp |-> 0, result |-> "SUCCESS",
                console_ok |-> TRUE, console |-> <<>>]

\* the builds of a job whose builds start ms milliseconds into an hour
ExistingBuilds(ms) ==
    {[exists |-> TRUE, timestamp |-> JenkinsTimestamp(h, ms), result |-> r,
      console_ok |-> ok, console |-> ConsoleText(r)] :
        h \in 0..MaxTime, r \in Results, ok \in BOOLEAN}

\* milliseconds into the hour at which a job's builds start
SubSecond == {0, 500}

\* timestamps do not decrease with the build number; the console of a
\* successful build is never in question
WellFormed(builds) ==
    /\ \A n \in DOMAIN builds :
           builds[n].result = "SUCCESS" => builds[n].console_ok
    /\ \A m, n \in DOMAIN builds :
           (m < n /\ builds[m].exists /\ builds[n].exists)
               => builds[m].timestamp <= builds[n].timestamp

Histories ==
    UNION {{b \in [1..MaxBuild -> ExistingBuilds(ms) \cup {NoSuchBuild}] :
               WellFormed(b)} : ms \in SubSecond}

BuildExists(n) == n \in DOMAIN jenkins_builds /\ jenkins_builds[n].exists

\* get_server().get_job_info(job_name)['lastCompletedBuild']
lastCompletedBuild ==
    LET numbers == {n \in DOMAIN jenkins_builds : jenkins_builds[n].exists}
    IN  IF numbers = {} THEN None
        ELSE [number |-> CHOOSE n \in numbers : \A m \in numbers : m <= n]

\* the catalog the report runs read
ReportCatalog ==
    << [name |-> "oom", re |-> << <<"a", ".">> >>, text |-> << <<"a">> >>,
        bug_url |-> "bug1"],
       [name |-> "timeout", re |-> <<>>, text |-> << <<"A">> >>,
        bug_url |-> ""] >>

(***************************************************************************)
(* get_build_info, is_build_included, get_build_fail_cause                 *)
(***************************************************************************)
\* the build_info dict of an existing build, its timestamp made a datetime
get_build_info(number) ==
    [number |-> number,
     timestamp |-> fromtimestamp(jenkins_builds[number].timestamp),
     result |-> jenkins_builds[number].result]

\* is_build_included with the window test off by one
is_build_included_Strict(info, min_start, inc_success) ==
    IF ~dt_gt(info.timestamp, min_start) THEN FALSE
    ELSE IF info.result = "SUCCESS" /\ ~inc_success THEN FALSE
    ELSE TRUE

is_build_included(info, min_start, inc_success) ==
    IF dt_lt(info.timestamp, min_start) THEN FALSE
    ELSE IF info.result = "SUCCESS" /\ ~inc_success THEN FALSE
    ELSE TRUE

\* get_build_fail_cause searching whatever the result
NeedsCauseSearch_Always(info) == TRUE

\* get_build_fail_cause: the console is searched unless the result is SUCCESS
NeedsCauseSearch(info) == info.result # "SUCCESS"

(***************************************************************************)
(* The build_statuses dict: its items in insertion order.  The key         *)
(* '{}_{}'.format(job_name, build_number) of the one job reported on is    *)
(* the build number.                                                       *)
(***************************************************************************)
Item(info, cause_info) ==
    [key |-> info.number,
     value |-> [build_number |-> info.number, build_info |-> info,
                cause_info |-> cause_info]]

\* d[item.key] = item.value
DictSet(d, item) ==
    IF \E i \in 1..Len(d) : d[i].key = item.key
    THEN [i \in 1..Len(d) |-> IF d[i].key = item.key THEN item ELSE d[i]]
    ELSE Append(d, item)

\* the store of display_builds_for_job without its guard
RecordBuild_Unguarded(statuses, included, info, cause_info) ==
    DictSet(statuses, Item(info, cause_info))

\* if is_build_included(...): build_statuses[key] = {...}
RecordBuild(statuses, included, info, cause_info) ==
    IF included THEN DictSet(statuses, Item(info, cause_info)) ELSE statuses

(***************************************************************************)
(* get_causes: the file is read on the first call and the dict cached; a   *)
(* failed read raises and caches nothing.                                  *)
(***************************************************************************)
Call(op, number, ok) == [op |-> op, number |-> number, ok |-> ok]

get_causes(cache) ==
    IF cache # None THEN [ok |-> TRUE, cache |-> cache, calls |-> <<>>]
    ELSE IF causes_file.readable
    THEN [ok |-> TRUE, cache |-> [data |-> causes_file.data],
          calls |-> <<Call("load_causes", 0, TRUE)>>]
    ELSE [ok |-> FALSE, cache |-> None,
          calls |-> <<Call("load_causes", 0, FALSE)>>]

(***************************************************************************)
(* search_for_cause(job_name, number): the console text is fetched (line   *)
(* 49), the catalog is got (line 50), the rules are tried (lines 51-60).   *)
(* The outcomes: an exception raised by the fetch or by the load, or one   *)
(* of the lists that may be returned.                                      *)
(***************************************************************************)
search_for_cause(number, made, cache, last_output) ==
    IF ~(BuildExists(number) /\ jenkins_builds[number].console_ok)
    THEN {[ok |-> FALSE, error |-> "LogFetchError",
           calls |-> Append(made, Call("get_build_console_output",
                                       number, FALSE)),
           cache |-> cache, output |-> last_output, list |-> <<>>]}
    ELSE
    LET fetched == jenkins_builds[number].console
        c2 == Append(made, Call("get_build_console_output", number, TRUE))
        loaded == get_causes(cache)
    IN  IF ~loaded.ok
        THEN {[ok |-> FALSE, error |-> "CatalogLoadError",
               calls |-> c2 \o loaded.calls, cache |-> loaded.cache,
               output |-> fetched, list |-> <<>>]}
        ELSE {[ok |-> TRUE, error |-> "None",
               calls |-> c2 \o loaded.calls, cache |-> loaded.cache,
               output |-> fetched, list |-> l] :
                 l \in ReturnedLists(fetched, loaded.cache.data)}

(***************************************************************************)
(* display_builds_for_job                                                  *)
(***************************************************************************)
\* the guard of display_builds_for_job left out
NoCompletedBuild_Ignored(last_build) == FALSE

\* if not last_build
NoCompletedBuild(last_build) == last_build = None

\* lines 229-236: the window, the job's last completed build, the locals
Begin ==
    /\ pc = "start"
    /\ min_start_time' = dt_minus(now, timedelta(hours_ago))
    /\ calls' = Append(calls, Call("get_job_info", 0, TRUE))
    /\ LET last_build == lastCompletedBuild
       IN  IF NoCompletedBuild(last_build)
           THEN /\ pc' = "returned"
                /\ UNCHANGED <<build_number, job_time, build_statuses, error>>
           ELSE IF last_build = None
           THEN \* None['number'] raises
                /\ pc' = "aborted"
                /\ error' = "TypeError"
                /\ UNCHANGED <<build_number, job_time, build_statuses>>
           ELSE /\ pc' = "walk"
                /\ build_number' = last_build.number
                /\ build_statuses' = <<>>
                /\ job_time' = now
                /\ UNCHANGED error
    /\ UNCHANGED <<jenkins_builds, causes_file, hours_ago, include_success,
                   build_info, include_build, causes_cache, table, output,
                   failure_reasons>>

\* the state one pass of the loop body leaves, an exception included
Raised(err, new_calls, info, included, time, cache, out) ==
    [pc |-> "aborted", error |-> err, calls |-> new_calls, build_info |-> info,
     include_build |-> included, job_time |-> time, causes_cache |-> cache,
     output |-> out,
     build_statuses |-> build_statuses, build_number |-> build_number]

Continued(new_calls, info, included, cache, out, cause_info) ==
    [pc |-> "walk", error |-> error, calls |-> new_calls, build_info |-> info,
     include_build |-> included, job_time |-> info.timestamp,
     causes_cache |-> cache, output |-> out,
     build_statuses |-> RecordBuild(build_statuses, included, info, cause_info),
     build_number |-> build_number - 1]

LoopBody ==
    IF ~BuildExists(build_number)
    THEN {Raised("BuildNotFound",
                 Append(calls, Call("get_build_info", build_number, FALSE)),
                 build_info, include_build, job_time, causes_cache, output)}
    ELSE
    LET info == get_build_info(build_number)
        c1 == Append(calls, Call("get_build_info", build_number, TRUE))
        included == is_build_included(info, min_start_time, include_success)
    IN  IF ~included
        THEN {Continued(c1, info, included, causes_cache, output, <<>>)}
        ELSE IF ~NeedsCauseSearch(info)
        THEN \* cause_info = ''
             {Continued(c1, info, included, causes_cache, output, <<>>)}
        ELSE {IF s.ok
              THEN Continued(s.calls, info, included, s.cache, s.output, s.list)
              ELSE Raised(s.error, s.calls, info, included, info.timestamp,
                          s.cache, s.output) :
                s \in search_for_cause(build_number, c1, causes_cache, output)}

\* lines 237-250: one pass of the while loop
WalkIter ==
    /\ pc = "walk"
    /\ dt_gt(job_time, min_start_time)
    /\ \E o \in LoopBody :
           /\ pc' = o.pc
           /\ error' = o.error
           /\ calls' = o.calls
           /\ build_info' = o.build_info
           /\ include_build' = o.include_build
           /\ job_time' = o.job_time
           /\ causes_cache' = o.causes_cache
           /\ build_statuses' = o.build_statuses
           /\ build_number' = o.build_number
           /\ output' = o.output
    /\ UNCHANGED <<jenkins_builds, causes_file, hours_ago, include_success,
                   min_start_time, table, failure_reasons>>

\* causes[c].get('bug_data', {}).get('url', '')
BugUrl(causes, c) ==
    LET i == CHOOSE j \in 1..Len(causes) : causes[j].name = c
    IN  causes[i].bug_url

\* the rows display_build_summary appends, one per value of the dict
Rows(statuses, causes) ==
    [i \in 1..Len(statuses) |->
        [build_number |-> statuses[i].value.build_number,
         result |-> statuses[i].value.build_info.result,
         cause_info |-> statuses[i].value.cause_info,
         bug_urls |-> [k \in 1..Len(statuses[i].value.cause_info) |->
                          BugUrl(causes, statuses[i].value.cause_info[k])]]]

\* line 251 and display_build_summary, once the loop condition fails
Summary ==
    /\ pc = "walk"
    /\ ~dt_gt(job_time, min_start_time)
    /\ LET loaded == get_causes(causes_cache)
       IN  /\ calls' = calls \o loaded.calls
           /\ causes_cache' = loaded.cache
           /\ IF loaded.ok
              THEN /\ pc' = "done"
                   /\ table' = [rows |-> Rows(build_statuses, loaded.cache.data)]
                   /\ UNCHANGED error
              ELSE /\ pc' = "aborted"
                   /\ error' = "CatalogLoadError"
                   /\ UNCHANGED table
    /\ UNCHANGED <<jenkins_builds, causes_file, hours_ago, include_success,
                   min_start_time, build_number, job_time, build_info,
                   include_build, build_statuses, output, failure_reasons>>

Init ==
    /\ jenkins_builds \in Histories
    /\ causes_file \in {[readable |-> TRUE, data |-> ReportCatalog],
                        [readable |-> FALSE, data |-> <<>>]}
    /\ hours_ago \in 0..MaxTime
    /\ include_success \in BOOLEAN
    /\ pc = "start"
    /\ min_start_time = datetime(0, 0)
    /\ build_number = 0
    /\ job_time = datetime(0, 0)
    /\ build_info = None
    /\ include_build = FALSE
    /\ build_statuses = <<>>
    /\ causes_cache = None
    /\ calls = <<>>
    /\ error = "None"
    /\ table = None
    /\ output = <<>>
    /\ failure_reasons = None

Next == Begin \/ WalkIter \/ Summary

Spec == Init /\ [][Next]_vars

(***************************************************************************)
(* The classifier alone: search_for_cause applied to a console text and a  *)
(* catalog drawn from bounded sets.                                        *)
(***************************************************************************)
CauseNames == <<"c1", "c2", "c3", "c4">>

ReLists ==
    { <<>>, << <<"a", ".">> >>, << <<"A">>, <<"a", ".">> >>, << <<".", "A">> >> }

TextLists ==
    { <<>>, << <<"a">> >>, << <<"a">>, <<"A">> >>, << <<"a", "A">> >> }

Catalogs ==
    UNION {
        {[i \in 1..k |-> [name |-> CauseNames[i], re |-> c[i].re,
                          text |-> c[i].text, bug_url |-> ""]] :
            c \in [1..k -> [re : ReLists, text : TextLists]]} :
        k \in 0..MaxSigs}

\* a job whose build 1 failed, with a console text of the bounded set that
\* can or cannot be fetched
ClassifyInit ==
    /\ \E text \in SeqsUpTo(Chars, MaxLogLen), fetchable \in BOOLEAN :
           jenkins_builds =
               [n \in 1..MaxBuild |->
                   IF n = 1
                   THEN [exists |-> TRUE, timestamp |-> JenkinsTimestamp(0, 0),
                         result |-> "FAILURE", console_ok |-> fetchable,
                         console |-> text]
                   ELSE NoSuchBuild]
    /\ causes_file \in {[readable |-> TRUE, data |-> c] : c \in Catalogs}
                        \cup {[readable |-> FALSE, data |-> <<>>]}
    /\ hours_ago = 0
    /\ include_success = FALSE
    /\ pc = "classify"
    /\ min_start_time = datetime(0, 0)
    /\ build_number = 1
    /\ job_time = datetime(0, 0)
    /\ build_info = None
    /\ include_build = FALSE
    /\ build_statuses = <<>>
    /\ causes_cache = None
    /\ calls = <<>>
    /\ error = "None"
    /\ table = None
    /\ output = <<>>
    /\ failure_reasons = None

\* lines 48-60: search_for_cause(job_name, build_number), called once
Classify ==
    /\ pc = "classify"
    /\ \E s \in search_for_cause(build_number, calls, causes_cache, output) :
           /\ calls' = s.calls
           /\ causes_cache' = s.cache
           /\ output' = s.output
           /\ IF s.ok
              THEN /\ pc' = "classified"
                   /\ failure_reasons' = [list |-> s.list]
                   /\ UNCHANGED error
              ELSE /\ pc' = "aborted"
                   /\ error' = s.error
                   /\ UNCHANGED failure_reasons
    /\ UNCHANGED <<jenkins_builds, causes_file, hours_ago, include_success,
                   min_start_time, build_number, job_time, build_info,
                   include_build, build_statuses, table>>

ClassifyNext == Classify

SpecClassify == ClassifyInit /\ [][ClassifyNext]_vars

(***************************************************************************)
(* Vocabulary of the properties.                                           *)
(***************************************************************************)
\* a datetime in milliseconds since the epoch
Millis(d) == d.seconds * 1000 + d.microsecond \div 1000

\* the cutoff of the report window: hours_ago hours before the run starts,
\* in milliseconds since the epoch
Cutoff == (MaxTime - hours_ago) * 3600 * 1000

\* the start time of an existing build, in milliseconds since the epoch
BuildTime(n) == jenkins_builds[n].timestamp

\* the builds whose metadata has been fetched
Visited ==
    {calls[i].number : i \in {j \in DOMAIN calls :
                                 calls[j].op = "get_build_info" /\ calls[j].ok}}

\* the builds whose console text has been asked for
ConsoleCalls == {i \in DOMAIN calls : calls[i].op = "get_build_console_output"}

\* the inclusion rule as the specification words it
Included(n) ==
    /\ BuildTime(n) >= Cutoff
    /\ (jenkins_builds[n].result = "SUCCESS" => include_success)

RemoteOps == {"get_job_info", "get_build_info", "get_build_console_output"}

\* every number from 1 up to the last completed build exists
Dense ==
    \A n \in DOMAIN jenkins_builds :
        BuildExists(n) => \A m \in 1..n : BuildExists(m)

(***************************************************************************)
(* C1: when the walk has stopped and the report is drawn, for a cutoff     *)
(* before now and a history with a build older than the cutoff, the builds *)
(* fetched are exactly those with timestamp >= cutoff plus exactly one     *)
(* boundary build with timestamp < cutoff.                                 *)
(***************************************************************************)
C1_WalkVisitsWindowPlusOneBoundary ==
    ( /\ pc = "done"
      /\ hours_ago > 0
      /\ \E b \in DOMAIN jenkins_builds : BuildExists(b) /\ BuildTime(b) < Cutoff )
    =>
        \E b \in DOMAIN jenkins_builds :
            /\ BuildExists(b)
            /\ BuildTime(b) < Cutoff
            /\ Visited = {n \in DOMAIN jenkins_builds :
                             BuildExists(n) /\ BuildTime(n) >= Cutoff} \cup {b}

(***************************************************************************)
(* C2: a metadata fetch that fails with BuildNotFound while older builds   *)
(* exist never ends the run: the walk is not aborted by it.                *)
(***************************************************************************)
C2_BuildNotFoundIsSkipped ==
    ~ /\ pc = "aborted"
      /\ error = "BuildNotFound"
      /\ \E m \in DOMAIN jenkins_builds : m < build_number /\ BuildExists(m)

(***************************************************************************)
(* C3: is_build_included returns true exactly when timestamp >= cutoff and *)
(* (result is SUCCESS implies includeSuccess).                             *)
(***************************************************************************)
C3_InclusionPolicy ==
    build_info # None =>
        (include_build <=>
            /\ Millis(build_info.timestamp) >= Millis(min_start_time)
            /\ (build_info.result = "SUCCESS" => include_success))

\* the last build fetched failed, started exactly at the cutoff and was
\* included with the flag off
C3_Witness ==
    /\ build_info # None
    /\ include_build
    /\ ~include_success
    /\ build_info.timestamp = min_start_time
    /\ build_info.result # "SUCCESS"

(***************************************************************************)
(* C4: a console fetch that fails never ends the run, and the build it was *)
(* for has a row with an empty classification.                             *)
(***************************************************************************)
C4_LogFetchErrorIsIsolated ==
    \A i \in ConsoleCalls :
        ~calls[i].ok =>
            /\ pc # "aborted"
            /\ \E k \in DOMAIN build_statuses :
                   /\ build_statuses[k].key = calls[i].number
                   /\ build_statuses[k].value.cause_info = <<>>

(***************************************************************************)
(* C5: no remote fetch precedes a failing load of the catalog.             *)
(***************************************************************************)
C5_CatalogLoadFailsBeforeAnyFetch ==
    \A i \in DOMAIN calls :
        (calls[i].op = "load_causes" /\ ~calls[i].ok) =>
            \A j \in 1..(i - 1) : calls[j].op \notin RemoteOps

(***************************************************************************)
(* C6: for a dense, well-formed history whose every fetch of an existing   *)
(* build succeeds and a readable catalog, the walk never ends without the  *)
(* report: the run is never aborted.                                       *)
(***************************************************************************)
C6_WalkEndsWithReport ==
    ( /\ Dense
      /\ causes_file.readable
      /\ \A n \in DOMAIN jenkins_builds : jenkins_builds[n].console_ok )
        => pc # "aborted"

(***************************************************************************)
(* C7: search_for_cause returns a list without duplicates holding exactly  *)
(* the names of the causes with at least one matching regex or literal.    *)
(***************************************************************************)
MatchingCauses(out, causes) ==
    {causes[i].name : i \in {j \in DOMAIN causes :
        \/ \E r \in Range(causes[j].re) : re_search(r, out)
        \/ \E t \in Range(causes[j].text) : str_in(t, out)}}

C7_ClassifyIsExactSet ==
    pc = "classified" =>
        LET l == failure_reasons.list
        IN  /\ \A i, j \in DOMAIN l : i # j => l[i] # l[j]
            /\ Range(l) = MatchingCauses(jenkins_builds[build_number].console,
                                          causes_file.data)

\* a cause with two matching rules is returned beside a cause without rules
C7_Witness ==
    /\ pc = "classified"
    /\ calls = <<Call("get_build_console_output", 1, TRUE),
                 Call("load_causes", 0, TRUE)>>
    /\ output = jenkins_builds[1].console
    /\ \E i, j \in DOMAIN causes_file.data :
           LET c == causes_file.data[i]
               d == causes_file.data[j]
           IN  /\ Len(CauseHits(c, output)) >= 2
               /\ c.name \in Range(failure_reasons.list)
               /\ d.re = <<>> /\ d.text = <<>>
               /\ d.name \notin Range(failure_reasons.list)

(***************************************************************************)
(* C8: with no completed build the function returns at once: no build      *)
(* metadata and no console text is fetched and nothing is reported.        *)
(***************************************************************************)
C8_NoCompletedBuildReturnsEmpty ==
    (pc # "start" /\ lastCompletedBuild = None) =>
        /\ pc = "returned"
        /\ \A i \in DOMAIN calls : calls[i].op = "get_job_info"
        /\ build_statuses = <<>>
        /\ table = None

C8_Witness ==
    /\ pc = "returned"
    /\ lastCompletedBuild = None
    /\ calls = <<Call("get_job_info", 0, TRUE)>>

(***************************************************************************)
(* C9: a console text is fetched only for a build that was visited, is     *)
(* included and has a non-success result, and at most once per build.      *)
(***************************************************************************)
C9_ClassifiedOnlyIfIncludedFailure ==
    \A i \in ConsoleCalls :
        LET n == calls[i].number
        IN  /\ \E j \in 1..(i - 1) :
                   calls[j] = Call("get_build_info", n, TRUE)
            /\ Included(n)
            /\ jenkins_builds[n].result # "SUCCESS"
            /\ \A k \in ConsoleCalls : calls[k].number = n => k = i

\* a build was classified in a walk that also visited a successful included
\* build and an excluded build, neither with a console fetch
C9_Witness ==
    /\ ConsoleCalls # {}
    /\ \E n \in Visited :
           /\ jenkins_builds[n].result = "SUCCESS"
           /\ Included(n)
    /\ \E n \in Visited : ~Included(n)

(***************************************************************************)
(* C10: when the walk has finished, build_statuses holds exactly one entry *)
(* per visited included build, in strictly descending build number, and    *)
(* the rows drawn follow that order.                                       *)
(***************************************************************************)
C10_StatusesAreVisitedIncludedDescending ==
    pc = "done" =>
        /\ {build_statuses[i].key : i \in DOMAIN build_statuses}
               = {n \in Visited : Included(n)}
        /\ \A i, j \in DOMAIN build_statuses :
               i < j => build_statuses[i].key > build_statuses[j].key
        /\ Len(table.rows) = Len(build_statuses)
        /\ \A i \in DOMAIN build_statuses :
               table.rows[i].build_number = build_statuses[i].key

\* a report of two builds after a walk that also visited excluded builds
C10_Witness ==
    /\ pc = "done"
    /\ Len(build_statuses) >= 2
    /\ \E n \in Visited : ~Included(n)
    /\ \E n \in Visited : ~Included(n) /\ BuildTime(n) >= Cutoff

====
